---- MODULE Spec2Model ----
(***************************************************************************)
(* Stone-OS (DBOS): the versioned resource store, its transactions and the *)
(* FileManager built on them.                                              *)
(*                                                                         *)
(* The SQL engine behind database/sql is modelled as a read-committed      *)
(* store: `committed` holds the committed rows of table resources, and     *)
(* every open sql.Tx has a log of its own statements, `log[h]`, which only *)
(* its own reads see and which Commit applies to `committed`.  A statement *)
(* that touches a row another open transaction has written fails (lock     *)
(* timeout / SQLITE_BUSY); waiting for the lock is the statement not being *)
(* taken yet.                                                              *)
(*                                                                         *)
(* Paths are sequences of names: << >> is "/", <<"home","a">> is "/home/a".*)
(* Instants are the values of `clock`; time.Now() reads it.                *)
(***************************************************************************)
EXTENDS Integers, Sequences, FiniteSets, TLC

\* ------------------------------------------------------------------ bounds
MaxTx == 2
MaxTime == 2
MaxMarks == 1

\* ------------------------------------------------------------ input domains
Handles == 1..MaxTx
Times == 1..MaxTime
NoTx == 0
\* "/home" names a directory, "/home/a" a file in it, "/x/a" has no parent.
Paths == { <<"home">>, <<"home", "a">>, <<"x", "a">> }
\* The content a caller creates a file with, and the one it updates it to.
NewContents == { <<1>> }
Contents == { <<2, 2>> }
Owners == { "alice" }
SavepointNames == { "s1" }

\* ------------------------------------------------------------------- state
VARIABLES
    clock,      \* the instant time.Now() returns
    committed,  \* committed rows of table resources
    tx,         \* tx[h]: the Transaction object behind handle h
    log,        \* log[h]: statements executed in h's sql.Tx and not yet committed
    registry,   \* Connection.txs: transaction id -> handle
    mu,         \* Connection.mu: the goroutine holding it, 0 when unlocked
    pc,         \* pc[g]: where goroutine g is in a call on the connection
    closed,     \* whether sql.DB.Close has run
    CurrentDirectory,   \* Shell.state.CurrentDirectory
    CurrentTransaction, \* Shell.state.CurrentTransaction: its handle, NoTx for nil
    schema      \* the tables and indexes of the database and the committed rows
                \* of schema_version, branches, users and transactions

vars == << clock, committed, tx, log, registry, mu, pc, closed, CurrentDirectory, CurrentTransaction, schema >>
\* The connection's mutex, its callers and its pool.
locking == << mu, pc, closed >>

\* ------------------------------------------------------------- the schema
\* valid_to TIMESTAMP (nullable): NULL is written Null.
Null == 0 - 1
InitTime == 0
InitTxId == 0 - 2
NullId == << "null", 0 >>
rootID == << "root", 0 >>

ResourceTypeFile == "file"
ResourceTypeDirectory == "directory"

TransactionStatusActive == "active"
TransactionStatusCommitted == "committed"
TransactionStatusRolledBack == "rolled_back"
\* A handle no Begin has returned yet.
NotBegun == "not_begun"

\* One row of table resources (metadata is kept as its size field).
Row(id, type, name, parent, path, content, size, from, txid) ==
    [ id |-> id, type |-> type, name |-> name, parent_id |-> parent,
      path |-> path, content |-> content, size |-> size,
      valid_from |-> from, valid_to |-> Null, transaction_id |-> txid ]

\* The rows applyInitialSchema inserts: the root directory and the
\* standard directories /home, /tmp and /usr.
standardDirs == { "home", "tmp", "usr" }
InitialRows ==
    { Row(rootID, ResourceTypeDirectory, "/", NullId, << >>, << >>, 0,
          InitTime, InitTxId) }
    \cup { Row(<< "dir-" \o d, 0 >>, ResourceTypeDirectory, d, rootID, << d >>,
              << >>, 0, InitTime, InitTxId) : d \in standardDirs }

\* The ids in table transactions: applyInitialSchema records "init";
\* Transaction.Commit records nothing.
TransactionRows == { InitTxId }

\* The rows of table operations: applyInitialSchema creates it empty and no
\* statement of the program inserts into it.
OperationRows == { }

\* The branch a stored version belongs to.  Table resources has no
\* branch_id column and no INSERT names one; every version is taken to be
\* in the default branch "main", the only branch applyInitialSchema creates.
RowBranch(r) == "main"

\* --------------------------------------------------------------- paths
\* filepath.Split followed by filepath.Clean of the directory part.
Dir(p) == IF p = << >> THEN << >> ELSE SubSeq(p, 1, Len(p) - 1)
Base(p) == IF p = << >> THEN "" ELSE p[Len(p)]

\* -------------------------------------------------------- the SQL engine
Insert(row) == [ kind |-> "insert", row |-> row, id |-> row.id, at |-> Null, name |-> "" ]
Close(id, at) == [ kind |-> "close", row |-> << >>, id |-> id, at |-> at, name |-> "" ]
Mark(name) == [ kind |-> "savepoint", row |-> << >>, id |-> NullId, at |-> Null, name |-> name ]

\* One statement applied to a set of rows.
ApplyStmt(rows, s) ==
    CASE s.kind = "insert" -> rows \cup { s.row }
      [] s.kind = "close" ->
            { IF r.id = s.id /\ r.valid_to = Null
                THEN [ r EXCEPT !.valid_to = s.at ] ELSE r : r \in rows }
      [] OTHER -> rows

RECURSIVE ApplyLog(_, _)
ApplyLog(rows, L) ==
    IF L = << >> THEN rows
    ELSE ApplyLog(ApplyStmt(rows, Head(L)), Tail(L))

\* What a read inside h's sql.Tx with log L sees.
ViewOf(L) == ApplyLog(committed, L)
View(h) == ViewOf(log[h])

\* The statements of the other open sql.Txs.
OtherStmts(h) ==
    UNION { { log[g][i] : i \in 1..Len(log[g]) } :
            g \in { k \in Handles : k # h /\ tx[k].dbtx = "open" } }

\* Row s targets is write-locked by another open sql.Tx: an uncommitted
\* insert of the same primary key, or an uncommitted update of the same row.
LockedByOther(h, s) ==
    \E o \in OtherStmts(h) : o.kind = s.kind /\ o.id = s.id

HasMark(L, name) == \E i \in 1..Len(L) : L[i] = Mark(name)
LastMark(L, name) ==
    CHOOSE i \in 1..Len(L) :
        /\ L[i] = Mark(name)
        /\ \A j \in (i + 1)..Len(L) : L[j] # Mark(name)

RECURSIVE DropMarks(_)
DropMarks(L) ==
    IF L = << >> THEN << >>
    ELSE IF Head(L).kind = "savepoint" THEN DropMarks(Tail(L))
    ELSE << Head(L) >> \o DropMarks(Tail(L))

Ok(L) == [ err |-> "", log |-> L ]
Fail(e, L) == [ err |-> e, log |-> L ]

\* A statement executed in an open sql.Tx.
TxExecOpen(h, L, s) ==
         CASE s.kind = "insert" ->
                IF \E r \in ViewOf(L) : r.id = s.id
                  THEN Fail("constraint failed: resources.id", L)
                ELSE IF LockedByOther(h, s) THEN Fail("database is locked", L)
                ELSE Ok(Append(L, s))
           [] s.kind = "close" ->
                IF LockedByOther(h, s) THEN Fail("database is locked", L)
                ELSE Ok(Append(L, s))
           [] s.kind = "savepoint" -> Ok(Append(L, s))
           [] s.kind = "rollback_to" ->
                IF HasMark(L, s.name)
                  THEN Ok(SubSeq(L, 1, LastMark(L, s.name)))
                  ELSE Fail("no such savepoint", L)
           [] s.kind = "release" ->
                IF HasMark(L, s.name)
                  THEN Ok(SubSeq(L, 1, LastMark(L, s.name) - 1)
                          \o DropMarks(SubSeq(L, LastMark(L, s.name) + 1, Len(L))))
                  ELSE Fail("no such savepoint", L)

\* sql.Tx.Exec of statement s in h's sql.Tx, whose log so far is L.
TxExec(h, L, s) ==
    IF tx[h].dbtx # "open" THEN Fail("sql: transaction has already been committed or rolled back", L)
    ELSE TxExecOpen(h, L, s)

RollbackTo(name) == [ kind |-> "rollback_to", row |-> << >>, id |-> NullId, at |-> Null, name |-> name ]
Release(name) == [ kind |-> "release", row |-> << >>, id |-> NullId, at |-> Null, name |-> name ]

\* Visible with reads on the connection going through transaction 1's sql.Tx.
VisibleThroughTx(h, L) ==
    IF h = NoTx THEN ApplyLog(committed, log[1]) ELSE ViewOf(L)

\* sql.Tx.Query and sql.DB.Query: the rows a read sees, h = NoTx for a read
\* on the connection.
QueryFails(h, L) == h # NoTx /\ tx[h].dbtx # "open"
Visible(h, L) == IF h = NoTx THEN committed ELSE ViewOf(L)

\* ------------------------------------------------------------ Transaction
NotActive == "transaction is not active"

\* Transaction.Execute
Execute(h, L, s) ==
    IF tx[h].status # TransactionStatusActive THEN Fail(NotActive, L)
    ELSE TxExec(h, L, s)

\* Transaction.ExecuteQuery: [err, rows]
ExecuteQuery(h, L) ==
    IF tx[h].status # TransactionStatusActive
      THEN [ err |-> NotActive, rows |-> {} ]
    ELSE IF QueryFails(h, L)
      THEN [ err |-> "sql: transaction has already been committed or rolled back", rows |-> {} ]
    ELSE [ err |-> "", rows |-> Visible(h, L) ]

Begun == { h \in Handles : tx[h].status # NotBegun }

\* What a call on transaction h returns and leaves behind: the error (""
\* for nil), the Transaction object, h's uncommitted statements and the
\* committed rows.
Out(err, t, L, rows) == [ err |-> err, t |-> t, log |-> L, committed |-> rows ]
Same(h, err) == Out(err, tx[h], log[h], committed)

\* The body of Connection.Begin: sql.DB.Begin and the registration.
BeginTx ==
    /\ \E h \in Handles :
        /\ tx[h].status = NotBegun
        /\ \A g \in Handles : g < h => tx[g].status # NotBegun
        /\ tx' = [ tx EXCEPT ![h] =
                     [ id |-> clock, startTime |-> clock, endTime |-> Null,
                       status |-> TransactionStatusActive, savepoints |-> {},
                       branchID |-> "", userID |-> "", dbtx |-> "open" ] ]
        /\ registry' = [ registry EXCEPT ![clock] = h ]
    /\ UNCHANGED << clock, committed, log >>

\* Connection.Begin
Begin == BeginTx /\ UNCHANGED << locking, CurrentDirectory, CurrentTransaction, schema >>

\* TxCommit taking a failed engine commit for a successful one.
TxCommitIgnoresError(h, ok) ==
    IF tx[h].status # TransactionStatusActive THEN Same(h, NotActive)
    ELSE IF tx[h].dbtx # "open" \/ ~ok
      THEN Out("", [ tx[h] EXCEPT !.dbtx = "done",
                                  !.status = TransactionStatusCommitted,
                                  !.endTime = clock ],
               << >>, committed)
    ELSE Out("", [ tx[h] EXCEPT !.dbtx = "done",
                                !.status = TransactionStatusCommitted,
                                !.endTime = clock ],
             << >>, ApplyLog(committed, log[h]))

\* Transaction.Commit; ok is whether the engine's commit succeeds.  A
\* failed sql.Tx.Commit ends the sql.Tx and discards its statements.
TxCommit(h, ok) ==
    IF tx[h].status # TransactionStatusActive THEN Same(h, NotActive)
    ELSE IF tx[h].dbtx # "open" \/ ~ok
      THEN Out("failed to commit transaction",
               [ tx[h] EXCEPT !.dbtx = "done" ], << >>, committed)
    ELSE Out("", [ tx[h] EXCEPT !.dbtx = "done",
                                !.status = TransactionStatusCommitted,
                                !.endTime = clock ],
             << >>, ApplyLog(committed, log[h]))

\* Transaction.Commit when sql.Tx.Commit returns an error although the
\* engine has made the transaction durable (the acknowledgement is lost).
TxCommitUnacknowledged(h) ==
    IF tx[h].status # TransactionStatusActive THEN Same(h, NotActive)
    ELSE IF tx[h].dbtx # "open"
      THEN Out("failed to commit transaction",
               [ tx[h] EXCEPT !.dbtx = "done" ], << >>, committed)
    ELSE Out("failed to commit transaction",
             [ tx[h] EXCEPT !.dbtx = "done" ], << >>, ApplyLog(committed, log[h]))

\* TxRollback ending the sql.Tx with Commit.
TxRollbackCommits(h) ==
    IF tx[h].status # TransactionStatusActive THEN Same(h, NotActive)
    ELSE IF tx[h].dbtx # "open" THEN Same(h, "failed to roll back transaction")
    ELSE Out("", [ tx[h] EXCEPT !.dbtx = "done",
                                !.status = TransactionStatusRolledBack,
                                !.endTime = clock ],
             << >>, ApplyLog(committed, log[h]))

\* Transaction.Rollback
TxRollback(h) ==
    IF tx[h].status # TransactionStatusActive THEN Same(h, NotActive)
    ELSE IF tx[h].dbtx # "open" THEN Same(h, "failed to roll back transaction")
    ELSE Out("", [ tx[h] EXCEPT !.dbtx = "done",
                                !.status = TransactionStatusRolledBack,
                                !.endTime = clock ],
             << >>, committed)

\* TxSavepoint without the status check.
TxSavepointUnchecked(h, name) ==
    LET x == TxExec(h, log[h], Mark(name))
    IN  IF x.err # "" THEN Same(h, "failed to create savepoint")
        ELSE Out("", [ tx[h] EXCEPT !.savepoints = @ \cup { name } ], x.log, committed)

\* Transaction.Savepoint
TxSavepoint(h, name) ==
    LET x == TxExec(h, log[h], Mark(name))
    IN  IF tx[h].status # TransactionStatusActive THEN Same(h, NotActive)
        ELSE IF x.err # "" THEN Same(h, "failed to create savepoint")
        ELSE Out("", [ tx[h] EXCEPT !.savepoints = @ \cup { name } ], x.log, committed)

\* TxRollbackToSavepoint undoing the whole transaction.
TxRollbackToStart(h, name) ==
    LET x == TxExec(h, log[h], RollbackTo(name))
    IN  IF tx[h].status # TransactionStatusActive THEN Same(h, NotActive)
        ELSE IF name \notin tx[h].savepoints THEN Same(h, "savepoint does not exist")
        ELSE IF x.err # "" THEN Same(h, "failed to roll back to savepoint")
        ELSE Out("", tx[h], << >>, committed)

\* Transaction.RollbackToSavepoint
TxRollbackToSavepoint(h, name) ==
    LET x == TxExec(h, log[h], RollbackTo(name))
    IN  IF tx[h].status # TransactionStatusActive THEN Same(h, NotActive)
        ELSE IF name \notin tx[h].savepoints THEN Same(h, "savepoint does not exist")
        ELSE IF x.err # "" THEN Same(h, "failed to roll back to savepoint")
        ELSE Out("", tx[h], x.log, committed)

\* TxReleaseSavepoint leaving the name in t.savepoints.
TxReleaseSavepointKeeps(h, name) ==
    LET x == TxExec(h, log[h], Release(name))
    IN  IF tx[h].status # TransactionStatusActive THEN Same(h, NotActive)
        ELSE IF name \notin tx[h].savepoints THEN Same(h, "savepoint does not exist")
        ELSE IF x.err # "" THEN Same(h, "failed to release savepoint")
        ELSE Out("", tx[h], x.log, committed)

\* Transaction.ReleaseSavepoint
TxReleaseSavepoint(h, name) ==
    LET x == TxExec(h, log[h], Release(name))
    IN  IF tx[h].status # TransactionStatusActive THEN Same(h, NotActive)
        ELSE IF name \notin tx[h].savepoints THEN Same(h, "savepoint does not exist")
        ELSE IF x.err # "" THEN Same(h, "failed to release savepoint")
        ELSE Out("", [ tx[h] EXCEPT !.savepoints = @ \ { name } ], x.log, committed)

\* The state after a call on transaction h that ended as o.
Becomes(h, o) ==
    /\ tx' = [ tx EXCEPT ![h] = o.t ]
    /\ log' = [ log EXCEPT ![h] = o.log ]
    /\ committed' = o.committed
    /\ UNCHANGED << clock, registry, locking, CurrentDirectory, CurrentTransaction, schema >>

Commit(h, ok) == h \in Begun /\ Becomes(h, TxCommit(h, ok))
CommitUnacknowledged(h) == h \in Begun /\ Becomes(h, TxCommitUnacknowledged(h))

Rollback(h) == h \in Begun /\ Becomes(h, TxRollback(h))
Savepoint(h, name) ==
    /\ h \in Begun
    /\ Cardinality({ i \in 1..Len(log[h]) : log[h][i].kind = "savepoint" }) < MaxMarks
    /\ Becomes(h, TxSavepoint(h, name))
\* Savepoint while the sql.Tx holds fewer than cap savepoints.
SavepointWithin(h, name, cap) ==
    /\ h \in Begun
    /\ Cardinality({ i \in 1..Len(log[h]) : log[h][i].kind = "savepoint" }) < cap
    /\ Becomes(h, TxSavepoint(h, name))
RollbackToSavepoint(h, name) == h \in Begun /\ Becomes(h, TxRollbackToSavepoint(h, name))
ReleaseSavepoint(h, name) == h \in Begun /\ Becomes(h, TxReleaseSavepoint(h, name))

\* A caller's read through Transaction.ExecuteQuery.
CallExecuteQuery(h) ==
    /\ h \in Begun
    /\ ExecuteQuery(h, log[h]).err \in { "", NotActive,
           "sql: transaction has already been committed or rolled back" }
    /\ UNCHANGED vars

\* time.Now() advances.
Tick ==
    /\ clock < MaxTime
    /\ clock' = clock + 1
    /\ UNCHANGED << committed, tx, log, registry, locking, CurrentDirectory, CurrentTransaction, schema >>

\* Transaction.SetBranchID
BranchIDs == { "main", "exp" }
SetBranchID(h, branchID) ==
    /\ h \in Begun
    /\ tx' = [ tx EXCEPT ![h].branchID = branchID ]
    /\ UNCHANGED << clock, committed, log, registry, locking, CurrentDirectory, CurrentTransaction, schema >>

\* ------------------------------------------------------------- queries
\* DefaultQueryOptions
DefaultQueryOptions ==
    [ PointInTime |-> Null, BranchID |-> "main", IncludeDeleted |-> FALSE,
      Limit |-> 0, Offset |-> 0, OrderBy |-> "name", OrderDirection |-> "ASC",
      TemporalCondition |-> "AS OF" ]

\* applyQueryOptions: the branch condition it appends to the WHERE clause.
\* ORDER BY name leaves the order of rows of one name to the engine, so a
\* caller that takes Rows[0] takes any of them.
applyQueryOptions(rows, options) ==
    { r \in rows : options.BranchID = "" \/ RowBranch(r) = options.BranchID }

\* Connection.Query (h = NoTx) and Transaction.Query: neither looks at the
\* transaction's status; a finished sql.Tx refuses the query.
\* `where` gives the columns the WHERE clause compares and their values.
Matches(r, where) == \A f \in DOMAIN where : r[f] = where[f]
Query(h, L, where, options) ==
    IF QueryFails(h, L)
      THEN [ err |-> "query execution failed", rows |-> {} ]
      ELSE [ err |-> "",
             rows |-> applyQueryOptions({ r \in Visible(h, L) : Matches(r, where) },
                                        options) ]

\* "AND valid_to IS NULL", which the FileManager adds unless IncludeDeleted.
CurrentOnly(where, options) ==
    IF options.IncludeDeleted THEN where
    ELSE [ f \in DOMAIN where \cup { "valid_to" } |->
             IF f = "valid_to" THEN Null ELSE where[f] ]

\* Connection.GetResourceHistory: the versions with this id, joined with
\* table transactions.
GetResourceHistory(resourceID, options) ==
    LET q == Query(NoTx, << >>, [ id |-> resourceID ], options)
    IN  [ q EXCEPT !.rows = { r \in @ : r.transaction_id \in TransactionRows } ]

\* GetFile without "AND r.valid_to IS NULL".
GetFileAnyVersion(path, h, L, options) ==
    LET where == [ type |-> "file", path |-> path ]
        q == Query(h, L, where, options)
    IN  IF q.err # "" THEN [ err |-> "failed to query for file", files |-> {} ]
        ELSE IF q.rows = {} THEN [ err |-> "file not found", files |-> {} ]
        ELSE [ err |-> "", files |-> q.rows ]

\* GetFile reading on the connection even when given a transaction.
GetFileOnConnection(path, h, L, options) ==
    LET where == CurrentOnly([ type |-> "file", path |-> path ], options)
        q == Query(NoTx, << >>, where, options)
    IN  IF q.err # "" THEN [ err |-> "failed to query for file", files |-> {} ]
        ELSE IF q.rows = {} THEN [ err |-> "file not found", files |-> {} ]
        ELSE [ err |-> "", files |-> q.rows ]

\* ------------------------------------------------------------ FileManager
\* FileManager.GetFile: [err, files], files the rows Rows[0] may be.
GetFile(path, h, L, options) ==
    LET where == CurrentOnly([ type |-> "file", path |-> path ], options)
        q == Query(h, L, where, options)
    IN  IF q.err # "" THEN [ err |-> "failed to query for file", files |-> {} ]
        ELSE IF q.rows = {} THEN [ err |-> "file not found", files |-> {} ]
        ELSE [ err |-> "", files |-> q.rows ]

\* getDirectoryID falling back to the root when the directory is not found.
getDirectoryIDOrRoot(path, h, L, options) ==
    LET where == CurrentOnly([ type |-> "directory", path |-> path ], options)
        q == Query(h, L, where, options)
    IN  IF q.err # "" THEN [ err |-> "failed to query for directory", ids |-> {} ]
        ELSE IF q.rows = {} THEN [ err |-> "", ids |-> { rootID } ]
        ELSE [ err |-> "", ids |-> { r.id : r \in q.rows } ]

\* FileManager.getDirectoryID: [err, ids]
getDirectoryID(path, h, L, options) ==
    IF path = << >> THEN [ err |-> "", ids |-> { rootID } ]
    ELSE LET where == CurrentOnly([ type |-> "directory", path |-> path ], options)
             q == Query(h, L, where, options)
         IN  IF q.err # "" THEN [ err |-> "failed to query for directory", ids |-> {} ]
             ELSE IF q.rows = {} THEN [ err |-> "directory not found", ids |-> {} ]
             ELSE [ err |-> "", ids |-> { r.id : r \in q.rows } ]

\* resourceExists looking at files only.
resourceExistsFilesOnly(name, parentID, h, L, options) ==
    LET where == CurrentOnly([ name |-> name, parent_id |-> parentID, type |-> "file" ],
                             options)
        q == Query(h, L, where, options)
    IN  IF q.err # "" THEN [ err |-> "failed to check if resource exists", exists |-> FALSE ]
        ELSE [ err |-> "", exists |-> q.rows # {} ]

\* FileManager.resourceExists: [err, exists]
resourceExists(name, parentID, h, L, options) ==
    LET where == CurrentOnly([ name |-> name, parent_id |-> parentID ], options)
        q == Query(h, L, where, options)
    IN  IF q.err # "" THEN [ err |-> "failed to check if resource exists", exists |-> FALSE ]
        ELSE [ err |-> "", exists |-> q.rows # {} ]

\* generateResourceID
generateResourceID == << "r", clock >>

Outcome(err, L, res) == [ err |-> err, log |-> L, res |-> res ]

\* CreateFileIn writing the row under the schema's 'init' transaction.
CreateFileInInitTx(h, L, path, content, parentID) ==
    LET e == resourceExists(Base(path), parentID, h, L, DefaultQueryOptions)
        row == Row(generateResourceID, ResourceTypeFile, Base(path), parentID,
                   path, content, Len(content), clock, InitTxId)
        x == Execute(h, L, Insert(row))
    IN  IF e.err # "" THEN Outcome("failed to check if file exists", L, {})
        ELSE IF e.exists THEN Outcome("file already exists", L, {})
        ELSE IF x.err # "" THEN Outcome("failed to insert file", L, {})
        ELSE Outcome("", x.log, { row })

\* The INSERT of CreateFile, once the parent is resolved.
CreateFileIn(h, L, path, content, parentID) ==
    LET e == resourceExists(Base(path), parentID, h, L, DefaultQueryOptions)
        row == Row(generateResourceID, ResourceTypeFile, Base(path), parentID,
                   path, content, Len(content), clock, tx[h].id)
        x == Execute(h, L, Insert(row))
    IN  IF e.err # "" THEN Outcome("failed to check if file exists", L, {})
        ELSE IF e.exists THEN Outcome("file already exists", L, {})
        ELSE IF x.err # "" THEN Outcome("failed to insert file", L, {})
        ELSE Outcome("", x.log, { row })

\* FileManager.CreateFile: the outcomes of the call, each [err, log, res].
CreateFile(h, path, content, owner) ==
    LET L == log[h]
        d == getDirectoryID(Dir(path), h, L, DefaultQueryOptions)
    IN  IF d.err # "" THEN { Outcome("parent directory not found", L, {}) }
        ELSE { CreateFileIn(h, L, path, content, parentID) : parentID \in d.ids }

\* UpdateFileOf carrying the old metadata size forward.
UpdateFileOfStaleSize(h, L, path, content, file) ==
    LET x1 == Execute(h, L, Close(file.id, clock))
        row == Row(<< "r", clock >>, ResourceTypeFile, file.name,
                   file.parent_id, path, content, file.size, clock, tx[h].id)
        x2 == Execute(h, x1.log, Insert(row))
    IN  IF x1.err # "" THEN Outcome("failed to mark old file version as invalid", L, {})
        ELSE IF x2.err # "" THEN Outcome("failed to insert new file version", x1.log, {})
        ELSE Outcome("", x2.log, { row })

\* The UPDATE and INSERT of UpdateFile, once the current version is read.
UpdateFileOf(h, L, path, content, file) ==
    LET x1 == Execute(h, L, Close(file.id, clock))
        row == Row(generateResourceID, ResourceTypeFile, file.name,
                   file.parent_id, path, content, Len(content), clock, tx[h].id)
        x2 == Execute(h, x1.log, Insert(row))
    IN  IF x1.err # "" THEN Outcome("failed to mark old file version as invalid", L, {})
        ELSE IF x2.err # "" THEN Outcome("failed to insert new file version", x1.log, {})
        ELSE Outcome("", x2.log, { row })

\* FileManager.UpdateFile
UpdateFile(h, path, content) ==
    LET L == log[h]
        g == GetFile(path, h, L, DefaultQueryOptions)
    IN  IF g.err # "" THEN { Outcome("failed to get file", L, {}) }
        ELSE { UpdateFileOf(h, L, path, content, file) : file \in g.files }

\* The UPDATE of DeleteFile, once the current version is read.
DeleteFileOf(h, L, file) ==
    LET x == Execute(h, L, Close(file.id, clock))
    IN  IF x.err # "" THEN Outcome("failed to mark file as deleted", L, {})
        ELSE Outcome("", x.log, {})

\* FileManager.DeleteFile
DeleteFile(h, path) ==
    LET L == log[h]
        g == GetFile(path, h, L, DefaultQueryOptions)
    IN  IF g.err # "" THEN { Outcome("failed to get file", L, {}) }
        ELSE { DeleteFileOf(h, L, file) : file \in g.files }

\* The state after a FileManager call with transaction h that ended as o.
Wrote(h, o) ==
    /\ log' = [ log EXCEPT ![h] = o.log ]
    /\ UNCHANGED << clock, committed, tx, registry, locking, CurrentDirectory, CurrentTransaction, schema >>

\* A caller's calls of the FileManager with transaction h.
CallCreateFile(h, path, content, owner) ==
    h \in Begun /\ \E o \in CreateFile(h, path, content, owner) : Wrote(h, o)
CallUpdateFile(h, path, content) ==
    h \in Begun /\ \E o \in UpdateFile(h, path, content) : Wrote(h, o)
CallDeleteFile(h, path) ==
    h \in Begun /\ \E o \in DeleteFile(h, path) : Wrote(h, o)

\* A caller's call of FileManager.GetFile, with a transaction or without.
LogOf(h) == IF h = NoTx THEN << >> ELSE log[h]
CallGetFile(h, path) ==
    /\ h \in Begun \cup { NoTx }
    /\ GetFile(path, h, LogOf(h), DefaultQueryOptions).err \in
           { "", "file not found", "failed to query for file" }
    /\ UNCHANGED vars

\* A caller's call of Connection.GetResourceHistory.
CallGetResourceHistory(id) ==
    /\ GetResourceHistory(id, DefaultQueryOptions).err = ""
    /\ UNCHANGED vars

\* ------------------------------------------------------------------ Shell
\* The engine's ordering of the text values the model uses (byte order).
Collation == << "/", "a", "b", "directory", "file", "home", "symlink", "tmp", "usr" >>
Rank(s) == CHOOSE i \in 1..Len(Collation) : Collation[i] = s

\* ORDER BY type DESC, name ASC: row r1 may come before row r2.
ListOrder(r1, r2) ==
    \/ Rank(r1.type) > Rank(r2.type)
    \/ r1.type = r2.type /\ Rank(r1.name) <= Rank(r2.name)

\* The sequences the engine may return for rows under that ORDER BY.
Ordered(rows) ==
    { q \in [ 1..Cardinality(rows) -> rows ] :
        /\ \A i, j \in DOMAIN q : i < j => q[i] # q[j] /\ ListOrder(q[i], q[j])  }

\* The rows a shell query sees: through the current transaction's
\* ExecuteQuery, or on the connection when there is none (h = NoTx).
ShellQuery(h, L) ==
    IF h = NoTx THEN [ err |-> "", rows |-> Visible(NoTx, L) ]
    ELSE ExecuteQuery(h, L)

\* valid_to IS NULL, or valid_from <= ? AND (valid_to IS NULL OR valid_to > ?)
\* when a point in time is set.
VisibleAt(r, pointInTime) ==
    IF pointInTime = Null THEN r.valid_to = Null
    ELSE r.valid_from <= pointInTime /\ (r.valid_to = Null \/ r.valid_to > pointInTime)

\* Shell.ListDirectory: [err, listings], listings the sequences of entries
\* it may print.
ListDirectory(path, h, L, pointInTime) ==
    LET q == ShellQuery(h, L)
        dirs == { r \in q.rows : /\ r.type = "directory" /\ r.path = path
                                 /\ VisibleAt(r, pointInTime) }
        Children(dirID) == { r \in q.rows : r.parent_id = dirID /\ VisibleAt(r, pointInTime) }
    IN  IF q.err # "" THEN [ err |-> "failed to check directory", listings |-> {} ]
        ELSE IF dirs = {} THEN [ err |-> "directory not found", listings |-> {} ]
        ELSE [ err |-> "",
               listings |-> UNION { Ordered(Children(d.id)) : d \in dirs } ]

\* The shell's ls, with current transaction h or none.
LsPaths == { << >>, << "home" >> }
LsFiles == { << "b" >>, << "home", "a" >>, << "home", "b" >> }
CallListDirectory(h, path) ==
    /\ h \in Begun \cup { NoTx }
    /\ ListDirectory(path, h, LogOf(h), Null).err \in
           { "", "directory not found", "failed to check directory" }
    /\ UNCHANGED vars

\* Shell.ChangeDirectory: the error it returns and the directory the
\* shell is in afterwards.
ChangeDirectory(path, h, L, pointInTime) ==
    LET q == ShellQuery(h, L)
    IN  IF q.err # ""
          THEN [ err |-> "failed to check directory", CurrentDirectory |-> CurrentDirectory ]
        ELSE IF \E r \in q.rows : /\ r.type = "directory" /\ r.path = path
                                  /\ VisibleAt(r, pointInTime)
          THEN [ err |-> "", CurrentDirectory |-> path ]
        ELSE [ err |-> "directory not found", CurrentDirectory |-> CurrentDirectory ]

\* The shell's cd and ls with a point in time set (Null when none is), with
\* current transaction h or none.
PointsInTime == Times \cup { Null }
CallChangeDirectory(h, path, pointInTime) ==
    /\ h \in Begun \cup { NoTx }
    /\ CurrentDirectory' = ChangeDirectory(path, h, LogOf(h), pointInTime).CurrentDirectory
    /\ UNCHANGED << clock, committed, tx, log, registry, locking, CurrentTransaction, schema >>
CallListDirectoryAt(h, path, pointInTime) ==
    /\ h \in Begun \cup { NoTx }
    /\ ListDirectory(path, h, LogOf(h), pointInTime).err \in
           { "", "directory not found", "failed to check directory" }
    /\ UNCHANGED vars

\* ---- Shell.MakeDirectory and Shell.TouchFile
\* The shell's current transaction is cur, NoTx when none is in progress;
\* a command without one begins its own transaction on handle n.
FreshHandle ==
    IF \A h \in Handles : tx[h].status # NotBegun THEN NoTx
    ELSE CHOOSE h \in Handles :
            /\ tx[h].status = NotBegun
            /\ \A g \in Handles : g < h => tx[g].status # NotBegun
NewTransaction ==
    [ id |-> clock, startTime |-> clock, endTime |-> Null,
      status |-> TransactionStatusActive, savepoints |-> {},
      branchID |-> "", userID |-> "", dbtx |-> "open" ]

\* tx.Execute and tx.ExecuteQuery of a shell command: on the current
\* transaction, or on the transaction n the command has just begun.
ShExecute(cur, n, L, s) ==
    IF cur = NoTx THEN TxExecOpen(n, L, s) ELSE Execute(cur, L, s)
ShExecuteQuery(cur, L) ==
    IF cur = NoTx THEN [ err |-> "", rows |-> ApplyLog(committed, L) ]
    ELSE ExecuteQuery(cur, L)

RECURSIVE SeqOf(_)
SeqOf(S) == IF S = {} THEN << >>
            ELSE LET x == CHOOSE y \in S : TRUE IN << x >> \o SeqOf(S \ { x })

\* UPDATE resources SET valid_to = ? WHERE parent_id = ? AND name = ? AND
\* valid_to IS NULL: one statement closing every row it matches.
ShCloseNamed(cur, n, L, parentID, name) ==
    LET view == ApplyLog(committed, L)
        ids == { r.id : r \in { v \in view : /\ v.parent_id = parentID /\ v.name = name
                                             /\ v.valid_to = Null } }
        probe == ShExecute(cur, n, L, Close(NullId, clock))
    IN  IF probe.err # "" THEN Fail(probe.err, L)
        ELSE IF \E id \in ids : ShExecute(cur, n, L, Close(id, clock)).err # ""
          THEN Fail("database is locked", L)
        ELSE Ok(L \o SeqOf({ Close(id, clock) : id \in ids }))

\* What a shell command returns and the state it leaves.
ShOut(err, txs, logs, rows, reg) ==
    [ err |-> err, tx |-> txs, log |-> logs, committed |-> rows, registry |-> reg ]
ShSame(err) == ShOut(err, tx, log, committed, registry)

\* The end of a command whose statements ended as x = [err, log]: inside
\* the current transaction the statements stay in it; a command that began
\* its own transaction commits it, the deferred Rollback running when the
\* command returns early with the transaction active.
ShFinish(cur, n, x, ok, failure) ==
    IF cur # NoTx
      THEN ShOut(IF x.err # "" THEN failure ELSE "",
                 tx, [ log EXCEPT ![cur] = x.log ], committed, registry)
    ELSE LET reg == [ registry EXCEPT ![clock] = n ]
         IN  IF x.err # ""
               THEN ShOut(failure,
                          [ tx EXCEPT ![n] = [ NewTransaction EXCEPT
                                !.dbtx = "done", !.endTime = clock,
                                !.status = TransactionStatusRolledBack ] ],
                          log, committed, reg)
             ELSE IF ~ok
               THEN ShOut("failed to commit transaction",
                          [ tx EXCEPT ![n] = [ NewTransaction EXCEPT !.dbtx = "done" ] ],
                          log, committed, reg)
             ELSE ShOut("",
                        [ tx EXCEPT ![n] = [ NewTransaction EXCEPT
                              !.dbtx = "done", !.endTime = clock,
                              !.status = TransactionStatusCommitted ] ],
                        log, ApplyLog(committed, x.log), reg)

\* The directories the parent check of a shell command can read first:
\* the current directories at parentPath among the committed rows.
ShParents(path) ==
    { r \in committed : /\ r.type = ResourceTypeDirectory /\ r.path = Dir(path)
                        /\ r.valid_to = Null }
ShLog(cur) == IF cur = NoTx THEN << >> ELSE log[cur]
ShTxID(cur) == IF cur = NoTx THEN clock ELSE tx[cur].id

\* Shell.MakeDirectory: the outcomes of mkdir path.
MakeDirectory(path, cur, ok) ==
    IF ShParents(path) = {} THEN { ShSame("parent directory not found") }
    ELSE { IF \E r \in committed : /\ r.parent_id = p.id /\ r.name = Base(path)
                                   /\ r.type = ResourceTypeDirectory /\ r.valid_to = Null
             THEN ShSame("directory already exists")
           ELSE ShFinish(cur, FreshHandle,
                    ShExecute(cur, FreshHandle, ShLog(cur),
                        Insert(Row(<< "dir", clock >>, ResourceTypeDirectory, Base(path),
                                   p.id, path, << >>, 0, clock, ShTxID(cur)))),
                    ok, "failed to create directory")
           : p \in ShParents(path) }

\* The branch of Shell.TouchFile that finds a current version: close it,
\* read it back and insert its successor.
TouchExisting(path, cur, ok, p) ==
    LET u == ShCloseNamed(cur, FreshHandle, ShLog(cur), p.id, Base(path))
        details == { r \in ShExecuteQuery(cur, u.log).rows :
                        /\ r.parent_id = p.id /\ r.name = Base(path)
                        /\ r.valid_to = clock }
    IN  IF u.err # "" THEN { ShFinish(cur, FreshHandle, u, ok, "failed to update file") }
        ELSE IF details = {}
          THEN { ShFinish(cur, FreshHandle, Fail("unexpected end of JSON input", u.log),
                          ok, "failed to unmarshal metadata") }
        ELSE { ShFinish(cur, FreshHandle,
                   ShExecute(cur, FreshHandle, u.log,
                       Insert(Row(<< "file", clock >>, ResourceTypeFile, Base(path),
                                  p.id, path, d.content, d.size, clock, ShTxID(cur)))),
                   ok, "failed to create new file version")
               : d \in details }

\* Shell.TouchFile: the outcomes of touch path.
TouchFile(path, cur, ok) ==
    IF ShParents(path) = {} THEN { ShSame("parent directory not found") }
    ELSE UNION {
           IF \E r \in committed : /\ r.parent_id = p.id /\ r.name = Base(path)
                                   /\ r.valid_to = Null
             THEN TouchExisting(path, cur, ok, p)
           ELSE { ShFinish(cur, FreshHandle,
                      ShExecute(cur, FreshHandle, ShLog(cur),
                          Insert(Row(<< "file", clock >>, ResourceTypeFile, Base(path),
                                     p.id, path, << >>, 0, clock, ShTxID(cur)))),
                      ok, "failed to create file") }
           : p \in ShParents(path) }

\* The shell's current transaction when a command is issued: none, or a
\* transaction the shell began and has not seen finish.
ShCurrent == { NoTx } \cup { h \in Handles : tx[h].status = TransactionStatusActive }
CanIssue(cur) == cur \in ShCurrent /\ (cur = NoTx => FreshHandle # NoTx)

ShDoes(o) ==
    /\ tx' = o.tx
    /\ log' = o.log
    /\ committed' = o.committed
    /\ registry' = o.registry
    /\ UNCHANGED << clock, locking, CurrentDirectory, CurrentTransaction, schema >>

MkdirPaths == { << "d" >> }
TouchPaths == { << "d" >>, << "d", "a" >> }

CallMakeDirectory ==
    \E path \in MkdirPaths, cur \in ShCurrent, ok \in BOOLEAN :
        /\ CanIssue(cur)
        /\ \E o \in MakeDirectory(path, cur, ok) : ShDoes(o)

CallTouchFile ==
    \E path \in TouchPaths, cur \in ShCurrent, ok \in BOOLEAN :
        /\ CanIssue(cur)
        /\ \E o \in TouchFile(path, cur, ok) : ShDoes(o)

\* ---- the connection's mutex
\* The goroutines sharing the connection.
Goroutines == 1..MaxTx

\* sql.DB keeps at most MaxOpenConns connections open and an open sql.Tx
\* holds one until it is committed or rolled back; sql.DB.Begin waits while
\* all are in use.  DefaultConfig sets 10; the model scales it down.
MaxOpenConns == 1
InUse == Cardinality({ h \in Handles : tx[h].dbtx = "open" })

\* A goroutine between two calls.
Idle == << "idle", "" >>

\* Goroutine g calls c: it first waits for c.mu.Lock().
Call(g, c) ==
    /\ pc[g] = Idle
    /\ c = "Begin" => FreshHandle # NoTx
    /\ pc' = [ pc EXCEPT ![g] = << c, "Lock" >> ]
    /\ UNCHANGED << clock, committed, tx, log, registry, mu, closed, CurrentDirectory, CurrentTransaction, schema >>

\* c.mu.Lock() returns to g.
Lock(g) ==
    /\ pc[g] \in { << c, "Lock" >> : c \in { "Begin", "GetActiveTransactionCount", "Close" } }
    /\ mu = 0
    /\ mu' = g
    /\ pc' = [ pc EXCEPT ![g] = << pc[g][1], "Locked" >> ]
    /\ UNCHANGED << clock, committed, tx, log, registry, closed, CurrentDirectory, CurrentTransaction, schema >>

Unlock(g) ==
    /\ mu' = 0
    /\ pc' = [ pc EXCEPT ![g] = Idle ]

\* Connection.Begin under the mutex: c.db.Begin() returns once the pool has
\* a connection, or with an error when the database is closed.
BeginLocked(g) ==
    /\ pc[g] = << "Begin", "Locked" >>
    /\ IF closed THEN UNCHANGED << clock, committed, tx, log, registry >>
       ELSE InUse < MaxOpenConns /\ BeginTx
    /\ Unlock(g)
    /\ UNCHANGED << closed, CurrentDirectory, CurrentTransaction, schema >>

\* The number Connection.GetActiveTransactionCount returns: the registered
\* transactions that are active.
GetActiveTransactionCount ==
    Cardinality({ t \in Times : /\ registry[t] # NoTx
                                /\ tx[registry[t]].status = TransactionStatusActive })

\* Connection.GetActiveTransactionCount under the mutex.
GetActiveTransactionCountLocked(g) ==
    /\ pc[g] = << "GetActiveTransactionCount", "Locked" >>
    /\ GetActiveTransactionCount \in 0..MaxTx
    /\ Unlock(g)
    /\ UNCHANGED << clock, committed, tx, log, registry, closed, CurrentDirectory, CurrentTransaction, schema >>

\* Connection.Close under the mutex: roll back the active transactions,
\* empty the registry, close the database.
CloseLocked(g) ==
    /\ pc[g] = << "Close", "Locked" >>
    /\ tx' = [ h \in Handles |->
                 IF h \in Begun /\ registry[tx[h].id] = h THEN TxRollback(h).t ELSE tx[h] ]
    /\ log' = [ h \in Handles |->
                  IF h \in Begun /\ registry[tx[h].id] = h THEN TxRollback(h).log ELSE log[h] ]
    /\ registry' = [ t \in Times |-> NoTx ]
    /\ closed' = TRUE
    /\ Unlock(g)
    /\ UNCHANGED << clock, committed, CurrentDirectory, CurrentTransaction, schema >>

\* Transaction.Commit and Transaction.Rollback called by g: neither takes
\* the connection's mutex.
GoCommit(g, h, ok) == pc[g] = Idle /\ Commit(h, ok)
GoRollback(g, h) == pc[g] = Idle /\ Rollback(h)

\* Shell.RemoveResource: prints a line and returns nil.
RemoveResource(path) == ShSame("")
CallRemoveResource == \E path \in Paths : ShDoes(RemoveResource(path))

\* ---- schema.Initialize
CurrentSchemaVersion == 1
Tables == { "schema_version", "resources", "operations", "transactions", "branches", "users" }
Indexes == { "idx_resources_parent_id", "idx_resources_path", "idx_resources_valid_time",
             "idx_operations_transaction_id", "idx_transactions_branch_id" }

\* The database without the rows of table resources: before the first
\* Initialize, and after it.
EmptySchema ==
    [ objects |-> {}, schema_version |-> {}, branches |-> {}, users |-> {},
      transactions |-> {} ]
InitialSchema ==
    [ objects |-> Tables \cup Indexes, schema_version |-> { CurrentSchemaVersion },
      branches |-> { "main" }, users |-> { "system" }, transactions |-> TransactionRows ]

\* The statements of Initialize: PRAGMA, CREATE TABLE and CREATE INDEX,
\* INSERT into a table with a primary key, INSERT into resources.  Each
\* carries the error Initialize returns when it fails.
Pragma == [ op |-> "pragma", name |-> "", key |-> 0, row |-> << >>,
            failure |-> "failed to enable foreign keys" ]
Create(name, failure) ==
    [ op |-> "create", name |-> name, key |-> 0, row |-> << >>, failure |-> failure ]
InsertInto(table, key, failure) ==
    [ op |-> "insert", name |-> table, key |-> key, row |-> << >>, failure |-> failure ]
InsertResource(row, failure) ==
    [ op |-> "resource", name |-> "resources", key |-> 0, row |-> row, failure |-> failure ]

\* The rows applyInitialSchema inserts into resources at instant now.
InitialRowsAt(now) == { [ r EXCEPT !.valid_from = now ] : r \in InitialRows }

\* applyInitialSchema, whose errors the caller wraps as failure.
applyInitialSchema(now, failure) ==
    << Create("resources", failure), Create("operations", failure),
       Create("transactions", failure), Create("branches", failure),
       Create("users", failure),
       Create("idx_resources_parent_id", failure), Create("idx_resources_path", failure),
       Create("idx_resources_valid_time", failure),
       Create("idx_operations_transaction_id", failure),
       Create("idx_transactions_branch_id", failure),
       InsertInto("branches", "main", failure), InsertInto("users", "system", failure) >>
    \o SeqOf({ InsertResource(r, failure) : r \in { x \in InitialRowsAt(now) : x.id = rootID } })
    \o SeqOf({ InsertResource(r, failure) : r \in { x \in InitialRowsAt(now) : x.id # rootID } })
    \o << InsertInto("transactions", InitTxId, failure) >>

\* What the transaction of Initialize sees: the schema and the rows of
\* resources.
Database(sch, rows) ==
    [ objects |-> sch.objects, schema_version |-> sch.schema_version,
      branches |-> sch.branches, users |-> sch.users,
      transactions |-> sch.transactions, rows |-> rows ]
SchemaOf(W) ==
    [ objects |-> W.objects, schema_version |-> W.schema_version,
      branches |-> W.branches, users |-> W.users, transactions |-> W.transactions ]

\* One statement executed on W: [err, W].
ExecOn(W, s) ==
    CASE s.op = "pragma" -> [ err |-> "", W |-> W ]
      [] s.op = "create" ->
            IF s.name \in W.objects THEN [ err |-> "already exists", W |-> W ]
            ELSE [ err |-> "", W |-> [ W EXCEPT !.objects = @ \cup { s.name } ] ]
      [] s.op = "insert" ->
            IF s.name \notin W.objects THEN [ err |-> "no such table", W |-> W ]
            ELSE IF s.key \in W[s.name] THEN [ err |-> "constraint failed", W |-> W ]
            ELSE [ err |-> "", W |-> [ W EXCEPT ![s.name] = @ \cup { s.key } ] ]
      [] s.op = "resource" ->
            IF "resources" \notin W.objects THEN [ err |-> "no such table", W |-> W ]
            ELSE IF \E r \in W.rows : r.id = s.row.id
              THEN [ err |-> "constraint failed", W |-> W ]
            ELSE [ err |-> "", W |-> [ W EXCEPT !.rows = @ \cup { s.row } ] ]

\* The statements from the i-th on executed in order on W, the failAt-th
\* failing in the engine: [err, W], err the failure of the statement that
\* stopped the run.
RECURSIVE RunFrom(_, _, _, _)
RunFrom(W, stmts, i, failAt) ==
    IF i > Len(stmts) THEN [ err |-> "", W |-> W ]
    ELSE IF i = failAt \/ ExecOn(W, stmts[i]).err # ""
      THEN [ err |-> stmts[i].failure, W |-> W ]
    ELSE RunFrom(ExecOn(W, stmts[i]).W, stmts, i + 1, failAt)

Max(S) == CHOOSE x \in S : \A y \in S : y <= x

\* The statements Initialize executes in the state it finds.
InitializeStatements ==
    IF "schema_version" \notin schema.objects
      THEN << Pragma, Create("schema_version", "failed to create schema_version table") >>
           \o applyInitialSchema(clock, "failed to apply initial schema")
           \o << InsertInto("schema_version", 1, "failed to record schema version") >>
    ELSE IF Max(schema.schema_version) < CurrentSchemaVersion
      THEN << Pragma >>
           \o applyInitialSchema(clock, "failed to apply migration to version 1")
           \o << InsertInto("schema_version", 1, "failed to record migration to version 1") >>
    ELSE << Pragma >>

\* What Initialize returns and the state it leaves.
InOut(err, t, rows, sch) ==
    [ err |-> err, tx |-> [ tx EXCEPT ![FreshHandle] = t ],
      registry |-> [ registry EXCEPT ![clock] = FreshHandle ],
      committed |-> rows, schema |-> sch ]

\* schema.Initialize, with the failAt-th statement failing in the engine (0
\* for none) and the engine's commit succeeding or not.
Initialize(failAt, ok) ==
    LET rolledBack == [ NewTransaction EXCEPT !.dbtx = "done", !.endTime = clock,
                                              !.status = TransactionStatusRolledBack ]
        x == RunFrom(Database(schema, committed), InitializeStatements, 1, failAt)
    IN  IF "schema_version" \in schema.objects /\ schema.schema_version = {}
          THEN InOut("failed to scan schema version", rolledBack, committed, schema)
        ELSE IF x.err # "" THEN InOut(x.err, rolledBack, committed, schema)
        ELSE IF ~ok
          THEN InOut("failed to commit schema initialization",
                     [ NewTransaction EXCEPT !.dbtx = "done" ], committed, schema)
        ELSE InOut("", [ NewTransaction EXCEPT !.dbtx = "done", !.endTime = clock,
                                              !.status = TransactionStatusCommitted ],
                   x.W.rows, SchemaOf(x.W))

CallInitialize(failAt, ok) ==
    /\ FreshHandle # NoTx
    /\ LET o == Initialize(failAt, ok)
       IN  /\ tx' = o.tx
           /\ registry' = o.registry
           /\ committed' = o.committed
           /\ schema' = o.schema
    /\ UNCHANGED << clock, log, locking, CurrentDirectory, CurrentTransaction >>

\* ---- Shell.BeginTransaction, CommitTransaction and AbortTransaction
\* What a transaction command returns and the state it leaves: the
\* Transaction objects, their uncommitted statements, the committed rows,
\* the registry and the shell's current transaction.
StOut(err, txs, logs, rows, reg, cur) ==
    [ err |-> err, tx |-> txs, log |-> logs, committed |-> rows, registry |-> reg,
      CurrentTransaction |-> cur ]
StSame(err) == StOut(err, tx, log, committed, registry, CurrentTransaction)

\* Shell.state.CurrentBranch and Shell.state.User, which no command changes.
CurrentBranch == "main"
User == "alice"

\* Shell.BeginTransaction
BeginTransaction ==
    IF CurrentTransaction # NoTx THEN StSame("transaction already in progress")
    ELSE StOut("",
               [ tx EXCEPT ![FreshHandle] =
                   [ NewTransaction EXCEPT !.branchID = CurrentBranch, !.userID = User ] ],
               log, committed, [ registry EXCEPT ![clock] = FreshHandle ], FreshHandle)

\* StEnd keeping the current transaction after a successful end.
StEndKeepsTransaction(o, failure) ==
    StOut(IF o.err # "" THEN failure ELSE "",
          [ tx EXCEPT ![CurrentTransaction] = o.t ],
          [ log EXCEPT ![CurrentTransaction] = o.log ],
          o.committed, registry, CurrentTransaction)

\* The end of CommitTransaction and AbortTransaction, o being what
\* Transaction.Commit or Transaction.Rollback returned.
StEnd(o, failure) ==
    StOut(IF o.err # "" THEN failure ELSE "",
          [ tx EXCEPT ![CurrentTransaction] = o.t ],
          [ log EXCEPT ![CurrentTransaction] = o.log ],
          o.committed, registry,
          IF o.err # "" THEN CurrentTransaction ELSE NoTx)

\* Shell.CommitTransaction
CommitTransaction(ok) ==
    IF CurrentTransaction = NoTx THEN StSame("no transaction in progress")
    ELSE StEnd(TxCommit(CurrentTransaction, ok), "failed to commit transaction")

\* Shell.AbortTransaction
AbortTransaction ==
    IF CurrentTransaction = NoTx THEN StSame("no transaction in progress")
    ELSE StEnd(TxRollback(CurrentTransaction), "failed to abort transaction")

StDoes(o) ==
    /\ tx' = o.tx
    /\ log' = o.log
    /\ committed' = o.committed
    /\ registry' = o.registry
    /\ CurrentTransaction' = o.CurrentTransaction
    /\ UNCHANGED << clock, locking, CurrentDirectory, schema >>

\* The shell's begin, commit and abort.
CallBeginTransaction ==
    /\ CurrentTransaction = NoTx => FreshHandle # NoTx
    /\ StDoes(BeginTransaction)
CallCommitTransaction(ok) == \E o \in { CommitTransaction(ok) } : StDoes(o)
CallAbortTransaction == \E o \in { AbortTransaction } : StDoes(o)

\* The shell's mkdir and touch, issued with its current transaction.
CallShellMakeDirectory ==
    \E path \in MkdirPaths, ok \in BOOLEAN :
        /\ CanIssue(CurrentTransaction)
        /\ \E o \in MakeDirectory(path, CurrentTransaction, ok) : ShDoes(o)
CallShellTouchFile ==
    \E path \in TouchPaths, ok \in BOOLEAN :
        /\ CanIssue(CurrentTransaction)
        /\ \E o \in TouchFile(path, CurrentTransaction, ok) : ShDoes(o)

\* ---- Commit and Rollback step by step
\* Transaction.Commit and Transaction.Rollback take no lock: a call reads
\* t.status, then ends the sql.Tx, then assigns t.status and t.endTime, and
\* calls of several goroutines interleave between these steps.  pc[g] is
\* << call, handle, stage >> while g is in such a call and, with the error
\* returned as its stage ("" for nil), after the call has returned.
Calls == { "Commit", "Rollback" }
InCall(g) == Len(pc[g]) = 3

\* A sql.Tx whose done flag is never seen set.
TxDoneNever(h) == FALSE

\* sql.Tx's done flag, which sql.Tx.Commit and sql.Tx.Rollback test and
\* set in one atomic step.
TxDone(h) == tx[h].dbtx # "open"

\* if t.status != TransactionStatusActive { return ... }
CheckStatus(g, call, h) ==
    /\ pc[g] = Idle
    /\ h \in Begun
    /\ pc' = [ pc EXCEPT ![g] =
                 << call, h, IF tx[h].status # TransactionStatusActive THEN NotActive
                             ELSE "active" >> ]
    /\ UNCHANGED << clock, committed, tx, log, registry, mu, closed, CurrentDirectory, CurrentTransaction, schema >>

\* err := t.tx.Commit() or t.tx.Rollback(), and the return when it failed.
EndSqlTx(g, ok) ==
    /\ InCall(g)
    /\ pc[g][3] = "active"
    /\ LET call == pc[g][1]
           h == pc[g][2]
           failure == IF call = "Commit" THEN "failed to commit transaction"
                      ELSE "failed to roll back transaction"
       IN  IF TxDone(h)
             THEN /\ pc' = [ pc EXCEPT ![g] = << call, h, failure >> ]
                  /\ UNCHANGED << tx, log, committed >>
           ELSE /\ tx' = [ tx EXCEPT ![h].dbtx = "done" ]
                /\ log' = [ log EXCEPT ![h] = << >> ]
                /\ committed' = IF call = "Commit" /\ ok THEN ApplyLog(committed, log[h])
                                ELSE committed
                /\ pc' = [ pc EXCEPT ![g] =
                             << call, h, IF call = "Commit" /\ ~ok THEN failure ELSE "ended" >> ]
    /\ UNCHANGED << clock, registry, mu, closed, CurrentDirectory, CurrentTransaction, schema >>

\* t.status = ...; t.endTime = time.Now(); return nil
AssignStatus(g) ==
    /\ InCall(g)
    /\ pc[g][3] = "ended"
    /\ tx' = [ tx EXCEPT ![pc[g][2]] =
                 [ @ EXCEPT !.status = IF pc[g][1] = "Commit" THEN TransactionStatusCommitted
                                       ELSE TransactionStatusRolledBack,
                            !.endTime = clock ] ]
    /\ pc' = [ pc EXCEPT ![g] = << pc[g][1], pc[g][2], "" >> ]
    /\ UNCHANGED << clock, committed, log, registry, mu, closed, CurrentDirectory, CurrentTransaction, schema >>

\* A caller's call of FileManager.GetFile without a transaction, resolving
\* through branch branchID.
InBranch(branchID) == [ DefaultQueryOptions EXCEPT !.BranchID = branchID ]
CallGetFileInBranch(path, branchID) ==
    /\ GetFile(path, NoTx, << >>, InBranch(branchID)).err \in { "", "file not found" }
    /\ UNCHANGED vars

Init ==
    /\ clock = 1
    /\ committed = InitialRows
    /\ tx = [ h \in Handles |->
                [ id |-> Null, startTime |-> Null, endTime |-> Null,
                  status |-> NotBegun, savepoints |-> {},
                  branchID |-> "", userID |-> "", dbtx |-> "none" ] ]
    /\ log = [ h \in Handles |-> << >> ]
    /\ registry = [ t \in Times |-> NoTx ]
    /\ mu = 0
    /\ pc = [ g \in Goroutines |-> Idle ]
    /\ closed = FALSE
    /\ CurrentDirectory = << >>
    /\ CurrentTransaction = NoTx
    /\ schema = InitialSchema

\* The FileManager over transactions.
NextFM ==
    \/ Tick
    \/ Begin
    \/ \E h \in Handles, ok \in BOOLEAN : Commit(h, ok)
    \/ \E h \in Handles : Rollback(h)
    \/ \E h \in Handles, p \in Paths, c \in NewContents, o \in Owners : CallCreateFile(h, p, c, o)
    \/ \E h \in Handles, p \in Paths, c \in Contents : CallUpdateFile(h, p, c)
    \/ \E h \in Handles, p \in Paths : CallDeleteFile(h, p)
    \/ \E h \in Handles \cup { NoTx }, p \in Paths : CallGetFile(h, p)
    \/ \E t \in Times : CallGetResourceHistory(<< "r", t >>)
    \/ CallRemoveResource

\* The Transaction API, with CreateFile as the writer.
NextTx ==
    \/ Tick
    \/ Begin
    \/ \E h \in Handles, ok \in BOOLEAN : Commit(h, ok)
    \/ \E h \in Handles : Rollback(h)
    \/ \E h \in Handles, n \in SavepointNames : Savepoint(h, n)
    \/ \E h \in Handles, n \in SavepointNames : RollbackToSavepoint(h, n)
    \/ \E h \in Handles, n \in SavepointNames : ReleaseSavepoint(h, n)
    \/ \E h \in Handles : CallExecuteQuery(h)
    \/ \E h \in Handles, p \in Paths, c \in NewContents, o \in Owners : CallCreateFile(h, p, c, o)

\* The FileManager with transactions tagged with a branch.
NextBr ==
    \/ Tick
    \/ Begin
    \/ \E h \in Handles, b \in BranchIDs : SetBranchID(h, b)
    \/ \E h \in Handles, ok \in BOOLEAN : Commit(h, ok)
    \/ \E h \in Handles, p \in Paths, c \in NewContents, o \in Owners : CallCreateFile(h, p, c, o)
    \/ \E h \in Handles, p \in Paths : CallDeleteFile(h, p)
    \/ \E p \in Paths, b \in BranchIDs : CallGetFileInBranch(p, b)

\* The shell's listing over files created in transactions.
NextLs ==
    \/ Tick
    \/ Begin
    \/ \E h \in Handles, ok \in BOOLEAN : Commit(h, ok)
    \/ \E h \in Handles, p \in LsFiles, c \in NewContents, o \in Owners : CallCreateFile(h, p, c, o)
    \/ \E h \in Handles \cup { NoTx }, p \in LsPaths : CallListDirectory(h, p)

\* Commit with every outcome of the engine's commit, and its retries.
NextCm ==
    \/ Tick
    \/ Begin
    \/ \E h \in Handles, ok \in BOOLEAN : Commit(h, ok)
    \/ \E h \in Handles : CommitUnacknowledged(h)
    \/ \E h \in Handles : Rollback(h)
    \/ \E h \in Handles, p \in Paths, c \in NewContents, o \in Owners : CallCreateFile(h, p, c, o)

\* Savepoints around the writes of a transaction.
SpFiles == { << "home", "a" >>, << "home", "b" >> }
NextSp ==
    \/ Tick
    \/ Begin
    \/ \E h \in Handles : Commit(h, TRUE)
    \/ \E h \in Handles, n \in SavepointNames : Savepoint(h, n)
    \/ \E h \in Handles, n \in SavepointNames : RollbackToSavepoint(h, n)
    \/ \E h \in Handles, p \in SpFiles, c \in NewContents, o \in Owners : CallCreateFile(h, p, c, o)

\* Shells issuing mkdir and touch, with and without a transaction of theirs.
NextSh ==
    \/ Tick
    \/ Begin
    \/ \E h \in Handles, ok \in BOOLEAN : Commit(h, ok)
    \/ \E h \in Handles : Rollback(h)
    \/ CallMakeDirectory
    \/ CallTouchFile

\* Files created, updated and deleted, and a shell travelling in time.
TtFiles == { << "home", "a" >> }
NextTt ==
    \/ Tick
    \/ Begin
    \/ \E h \in Handles : Commit(h, TRUE)
    \/ \E h \in Handles, p \in TtFiles, c \in NewContents, o \in Owners : CallCreateFile(h, p, c, o)
    \/ \E h \in Handles, p \in TtFiles, c \in Contents : CallUpdateFile(h, p, c)
    \/ \E h \in Handles, p \in TtFiles : CallDeleteFile(h, p)
    \/ \E h \in Handles \cup { NoTx }, p \in LsPaths, t \in PointsInTime : CallChangeDirectory(h, p, t)
    \/ \E h \in Handles \cup { NoTx }, p \in LsPaths, t \in PointsInTime : CallListDirectoryAt(h, p, t)

\* One shell's begin, commit and abort around its mkdir and touch.
NextSt ==
    \/ Tick
    \/ CallBeginTransaction
    \/ \E ok \in BOOLEAN : CallCommitTransaction(ok)
    \/ CallAbortTransaction
    \/ CallShellMakeDirectory
    \/ CallShellTouchFile

\* Savepoints of two names, nested and repeated.
SvNames == { "s1", "s2" }
NextSv ==
    \/ Begin
    \/ \E h \in Handles, n \in SvNames : SavepointWithin(h, n, MaxMarks + 1)
    \/ \E h \in Handles, n \in SvNames : RollbackToSavepoint(h, n)
    \/ \E h \in Handles, n \in SvNames : ReleaseSavepoint(h, n)

\* Initialize called on a database that is new or already initialized.
NextIn ==
    \/ Tick
    \/ Begin
    \/ \E h \in Handles, ok \in BOOLEAN : Commit(h, ok)
    \/ \E h \in Handles : Rollback(h)
    \/ \E failAt \in 0..Len(InitializeStatements), ok \in BOOLEAN :
          CallInitialize(failAt, ok)

\* Two goroutines each calling Commit or Rollback once, on the same
\* transaction or on two.
RcFiles == { << "home", "a" >> }
\* The goroutines that call Commit and Rollback: the shell's and the
\* signal handler's.
Racers == { 1, 2 }
NextRc ==
    \/ Tick
    \/ Begin
    \/ \E h \in Handles, p \in RcFiles, c \in NewContents, o \in Owners : CallCreateFile(h, p, c, o)
    \/ \E g \in Racers, call \in Calls, h \in Handles : CheckStatus(g, call, h)
    \/ \E g \in Racers, ok \in BOOLEAN : EndSqlTx(g, ok)
    \/ \E g \in Racers : AssignStatus(g)

\* Goroutines calling Begin, Commit, Rollback, GetActiveTransactionCount
\* and Close on one connection.
NextMu ==
    \/ Tick
    \/ \E g \in Goroutines, c \in { "Begin", "GetActiveTransactionCount", "Close" } : Call(g, c)
    \/ \E g \in Goroutines : Lock(g)
    \/ \E g \in Goroutines : BeginLocked(g)
    \/ \E g \in Goroutines : GetActiveTransactionCountLocked(g)
    \/ \E g \in Goroutines : CloseLocked(g)
    \/ \E g \in Goroutines, h \in Handles, ok \in BOOLEAN : GoCommit(g, h, ok)
    \/ \E g \in Goroutines, h \in Handles : GoRollback(g, h)

Next == NextFM \/ NextTx \/ NextBr \/ NextLs \/ NextCm \/ NextSp \/ NextSh \/ NextMu \/ NextTt \/ NextRc \/ NextSt \/ NextSv \/ NextIn

Spec == Init /\ [][Next]_vars
SpecFM == Init /\ [][NextFM]_vars
SpecTx == Init /\ [][NextTx]_vars
SpecBr == Init /\ [][NextBr]_vars
SpecLs == Init /\ [][NextLs]_vars
SpecCm == Init /\ [][NextCm]_vars
SpecSp == Init /\ [][NextSp]_vars
SpecSh == Init /\ [][NextSh]_vars
SpecMu == Init /\ [][NextMu]_vars
SpecTt == Init /\ [][NextTt]_vars
SpecRc == Init /\ [][NextRc]_vars
SpecSt == Init /\ [][NextSt]_vars
SpecSv == Init /\ [][NextSv]_vars

\* The connection before the first Initialize: a database without tables.
InitNew ==
    /\ clock = 1
    /\ committed = {}
    /\ tx = [ h \in Handles |->
                [ id |-> Null, startTime |-> Null, endTime |-> Null,
                  status |-> NotBegun, savepoints |-> {},
                  branchID |-> "", userID |-> "", dbtx |-> "none" ] ]
    /\ log = [ h \in Handles |-> << >> ]
    /\ registry = [ t \in Times |-> NoTx ]
    /\ mu = 0
    /\ pc = [ g \in Goroutines |-> Idle ]
    /\ closed = FALSE
    /\ CurrentDirectory = << >>
    /\ CurrentTransaction = NoTx
    /\ schema = EmptySchema
SpecIn == InitNew /\ [][NextIn]_vars

\* ===================================================================
\* Properties
\* ===================================================================
\* h's sql.Tx is open and its Transaction active: a caller can write with it.
Usable(h) == tx[h].status = TransactionStatusActive /\ tx[h].dbtx = "open"
Finished(h) == tx[h].status \in { TransactionStatusCommitted, TransactionStatusRolledBack }
\* The current versions of path p among rows.
Current(rows, p) == { r \in rows : r.path = p /\ r.valid_to = Null }
Inserts(L) == { L[i].row : i \in { j \in 1..Len(L) : L[j].kind = "insert" } }
FilePath == << "home", "a" >>

Uncommitted(h) == View(h) \ committed
\* A WHERE clause that compares nothing.
AllRows == << >>
\* Every row the reads of reader g return (g = NoTx: without a transaction).
Reads(g) ==
    IF g = NoTx
      THEN Visible(NoTx, << >>) \cup Query(NoTx, << >>, AllRows, DefaultQueryOptions).rows
      ELSE ExecuteQuery(g, log[g]).rows \cup Query(g, log[g], AllRows, DefaultQueryOptions).rows

C4_RolledBackState ==
    \A h \in Handles :
        tx[h].status = TransactionStatusRolledBack =>
            /\ log[h] = << >>
            /\ ExecuteQuery(h, log[h]).rows = {}
            /\ Query(h, log[h], AllRows, DefaultQueryOptions).rows = {}
C4_RollbackStep ==
    /\ \A h \in Handles :
        (tx[h].status = TransactionStatusActive
            /\ tx'[h].status = TransactionStatusRolledBack)
        => (committed' = committed /\ log'[h] = << >>)
    /\ committed' # committed =>
        \E h \in Handles :
            /\ tx[h].status = TransactionStatusActive
            /\ tx'[h].status = TransactionStatusCommitted
            /\ committed' = ApplyLog(committed, log[h])
C5_StatusStep ==
    \A h \in Handles :
        tx'[h].status # tx[h].status =>
            \/ /\ tx[h].status = NotBegun
               /\ tx'[h].status = TransactionStatusActive
            \/ /\ tx[h].status = TransactionStatusActive
               /\ tx[h].dbtx = "open"
               /\ tx'[h].status = TransactionStatusCommitted
               /\ committed' = ApplyLog(committed, log[h])
            \/ /\ tx[h].status = TransactionStatusActive
               /\ tx[h].dbtx = "open"
               /\ tx'[h].status = TransactionStatusRolledBack
               /\ committed' = committed
C5_StatusTransitions == [][C5_StatusStep]_vars

C5_Witness ==
    \E h, g \in Handles :
        /\ tx[h].status = TransactionStatusCommitted
        /\ tx[g].status = TransactionStatusRolledBack
        /\ committed # InitialRows

\* The statements a caller may pass to Execute.
SomeStatements ==
    { Insert(Row(<< "r", clock >>, ResourceTypeFile, "a", << "dir-home", 0 >>,
                 FilePath, << 1 >>, 1, clock, InitTxId)),
      Close(<< "dir-home", 0 >>, clock) }

\* C6: on a committed or rolled back transaction, Execute, ExecuteQuery,
\* Commit, Rollback, Savepoint, RollbackToSavepoint and ReleaseSavepoint
\* each return the not-active error and leave the transaction's status, end
\* time and savepoints and all stored rows unchanged.
C6_FinishedRefuses ==
    \A h \in Handles :
        Finished(h) =>
            /\ \A s \in SomeStatements : Execute(h, log[h], s) = Fail(NotActive, log[h])
            /\ ExecuteQuery(h, log[h]) = [ err |-> NotActive, rows |-> {} ]
            /\ \A ok \in BOOLEAN : TxCommit(h, ok) = Same(h, NotActive)
            /\ TxRollback(h) = Same(h, NotActive)
            /\ \A n \in SavepointNames :
                /\ TxSavepoint(h, n) = Same(h, NotActive)
                /\ TxRollbackToSavepoint(h, n) = Same(h, NotActive)
                /\ TxReleaseSavepoint(h, n) = Same(h, NotActive)

C6_Witness ==
    \E h, g \in Handles :
        /\ tx[h].status = TransactionStatusCommitted
        /\ tx[h].savepoints # {}
        /\ tx[g].status = TransactionStatusRolledBack
        /\ committed # InitialRows

Forever == MaxTime + 1
EndOf(r) == IF r.valid_to = Null THEN Forever ELSE r.valid_to
\* Some instant lies in both intervals.
Overlap(v1, v2) ==
    \E t \in 0..MaxTime :
        /\ v1.valid_from <= t /\ t < EndOf(v1)
        /\ v2.valid_from <= t /\ t < EndOf(v2)

ResolveCurrent(rows, p, b) ==
    applyQueryOptions({ r \in rows : Matches(r, CurrentOnly([ type |-> "file", path |-> p ],
                                                          InBranch(b))) },
                      InBranch(b))
Tagged(h) == Usable(h) /\ tx[h].branchID \notin { "", "main" }

Stored(h) == \E r \in committed : r.transaction_id = tx[h].id
\* h's Commit has returned an error: the transaction is still reported
\* active and its sql.Tx is finished.
CommitFailed(h) == tx[h].status = TransactionStatusActive /\ tx[h].dbtx = "done"

\* C23: after a Commit that returned the engine's error, a retry of Commit
\* on the same transaction reports the true outcome: it succeeds exactly
\* when the transaction's writes are stored.
C23_RetryReportsOutcome ==
    \A h \in Handles :
        ( /\ CommitFailed(h)
          /\ \A g \in Begun \ { h } : tx[g].id # tx[h].id )
        => \A ok \in BOOLEAN : (TxCommit(h, ok).err = "" <=> Stored(h))

\* The statements of L before and after the latest SAVEPOINT name.
BeforeMark(L, name) == SubSeq(L, 1, LastMark(L, name) - 1)
AfterMark(L, name) == SubSeq(L, LastMark(L, name) + 1, Len(L))

C25_UniqueChildNames ==
    \A r1, r2 \in committed :
        ( /\ r1.parent_id = r2.parent_id /\ r1.name = r2.name
          /\ r1.valid_to = Null /\ r2.valid_to = Null ) => r1 = r2

\* C26: a mkdir or touch issued with no transaction in progress leaves the
\* transaction it began committed when it succeeded and rolled back when it
\* failed; issued inside a shell transaction it neither commits nor rolls
\* back that transaction.
ShOutcomes(cur, ok) ==
    UNION { MakeDirectory(path, cur, ok) : path \in MkdirPaths }
    \cup UNION { TouchFile(path, cur, ok) : path \in TouchPaths }
C26_AutoTransactionFinished ==
    \A cur \in ShCurrent, ok \in BOOLEAN : CanIssue(cur) =>
        \A o \in ShOutcomes(cur, ok) :
            IF cur = NoTx
              THEN o.tx[FreshHandle].status \in
                      { NotBegun,
                        IF o.err = "" THEN TransactionStatusCommitted
                        ELSE TransactionStatusRolledBack }
            ELSE /\ o.tx = tx
                 /\ o.committed = committed

\* C27: with goroutines calling Begin, Commit, Rollback,
\* GetActiveTransactionCount and Close on one connection no reachable state
\* is a deadlock: some goroutine can always take a step, so no call waits
\* forever on the connection mutex.
CanProceed(g) ==
    IF pc[g] = Idle THEN TRUE
    ELSE IF pc[g][2] = "Lock" THEN mu = 0
    ELSE pc[g] = << "Begin", "Locked" >> => (closed \/ InUse < MaxOpenConns)
C27_NoDeadlock == \E g \in Goroutines : CanProceed(g)

\* C28: deleting a directory that has at least one current child fails with
\* a not-empty error, not with success nor with the error of a path that
\* names no file, and changes nothing.
NonEmptyDirectory(h, path) ==
    \E d, c \in View(h) :
        /\ d.type = ResourceTypeDirectory /\ d.path = path /\ d.valid_to = Null
        /\ c.parent_id = d.id /\ c.valid_to = Null
C28_DeleteNonEmptyDirectory ==
    \A h \in Handles, path \in Paths : (Usable(h) /\ NonEmptyDirectory(h, path)) =>
        /\ RemoveResource(path).err # ""
        /\ \A o \in DeleteFile(h, path) :
              /\ o.err \notin { "", "failed to get file" }
              /\ o.log = log[h]

\* C29: a read through Transaction.Query on a committed or rolled back
\* transaction fails with the transaction-not-active error.
C29_QueryOnFinishedNotActive ==
    \A h \in Handles : Finished(h) =>
        Query(h, log[h], [ type |-> ResourceTypeFile ], DefaultQueryOptions).err = NotActive

\* C30: with the point in time T set, ls and cd on the connection take a
\* version to be visible exactly when valid_from <= T and valid_to is null or
\* later than T, so a version closed at T is not listed at T and one opened
\* at T is; and at most one version of a path is listed at any T.
ListedAt(path, t) ==
    UNION { { q[i] : i \in DOMAIN q } : q \in ListDirectory(path, NoTx, << >>, t).listings }
Won(g, h) == InCall(g) /\ pc[g][2] = h /\ pc[g][3] \in { "ended", "" }
OnlyId(h) == \A g \in Begun \ { h } : tx[g].id # tx[h].id
StoredBy(h) == { r \in committed : r.transaction_id = tx[h].id }
C32_AbortEndsTransaction ==
    CurrentTransaction # NoTx =>
        /\ AbortTransaction.err = ""
        /\ AbortTransaction.CurrentTransaction = NoTx

\* C33: the shell holds at most one transaction at a time: begin while one
\* is in progress fails and changes nothing; commit and abort with none in
\* progress fail and change nothing; after a successful commit or abort the
\* shell holds none and the former transaction is not active.
BegunByShell == { h \in Begun : tx[h].branchID = CurrentBranch }
C33_OneShellTransaction ==
    /\ \A h \in BegunByShell : tx[h].status = TransactionStatusActive => h = CurrentTransaction
    /\ CurrentTransaction # NoTx =>
          /\ BeginTransaction.err # ""
          /\ BeginTransaction = StSame(BeginTransaction.err)
    /\ CurrentTransaction = NoTx =>
          \A o \in { CommitTransaction(ok) : ok \in BOOLEAN } \cup { AbortTransaction } :
              o.err # "" /\ o = StSame(o.err)
    /\ CurrentTransaction # NoTx =>
          \A o \in { CommitTransaction(ok) : ok \in BOOLEAN } \cup { AbortTransaction } :
              o.err = "" =>
                  /\ o.CurrentTransaction = NoTx
                  /\ o.tx[CurrentTransaction].status # TransactionStatusActive
C33_Witness ==
    /\ CurrentTransaction # NoTx
    /\ \E h \in BegunByShell \ { CurrentTransaction } :
          tx[h].status = TransactionStatusCommitted

\* C34: in every state of an active transaction the savepoint names that
\* pass the existence check of RollbackToSavepoint and ReleaseSavepoint are
\* the names of the savepoints that exist in the sql.Tx.
MarksOf(L) == { L[i].name : i \in { j \in 1..Len(L) : L[j].kind = "savepoint" } }
C34_SavepointsAgree ==
    \A h \in Handles : Usable(h) => tx[h].savepoints = MarksOf(log[h])

C36_CloseEndsTransactions ==
    closed =>
        /\ \A t \in Times : registry[t] = NoTx
        /\ \A h \in Begun : /\ tx[h].status # TransactionStatusActive
                            /\ log[h] = << >>

\* C37: GetActiveTransactionCount is the number of transactions Begin has
\* returned that were neither committed nor rolled back with success, and
\* no two transactions Begin has returned have the same id.
C37_CountsEveryActive ==
    /\ GetActiveTransactionCount =
          Cardinality({ h \in Begun : tx[h].status = TransactionStatusActive })
    /\ \A g, h \in Begun : tx[g].id = tx[h].id => g = h

\* The database holds exactly one schema_version row, of version 1, one
\* branch, main, and one current root directory, whose parent is null.
InitializedOnce(sch, rows) ==
    /\ sch.schema_version = { CurrentSchemaVersion }
    /\ sch.branches = { "main" }
    /\ Cardinality({ r \in rows : /\ r.type = ResourceTypeDirectory
                                  /\ r.name = "/"
                                  /\ r.valid_to = Null }) = 1
    /\ \A r \in rows : (r.name = "/" /\ r.valid_to = Null) => r.parent_id = NullId

\* C38: Initialize is idempotent and all-or-nothing: a call that succeeds,
\* the first or a later one, leaves exactly one schema_version row of
\* version 1, one main branch and one current root directory with a null
\* parent; a call that fails at any step has rolled back its transaction
\* and leaves the database as it was before the call.
C38_InitializeAllOrNothing ==
    FreshHandle # NoTx =>
        \A failAt \in 0..Len(InitializeStatements), ok \in BOOLEAN :
            LET o == Initialize(failAt, ok)
            IN  /\ o.err = "" => InitializedOnce(o.schema, o.committed)
                /\ o.err # "" =>
                      /\ o.schema = schema
                      /\ o.committed = committed
                      /\ o.tx[FreshHandle].status = TransactionStatusRolledBack

====
